---- MODULE Spec2Model ----
(***************************************************************************)
(* A model of src/utils.js of dynosaur: the value codec                    *)
(* (formatToDynamoItem / formatFromDynamoItem), the item codec             *)
(* (formatToDynamoItems / formatFromDynamoItems), createTable,             *)
(* conditionBuilder and updateItem.                                        *)
(*                                                                         *)
(* JavaScript values are tagged records [t |-> <typeof-like tag>, v |-> .] *)
(* Strings are sequences of one-character strings, so that concatenation,  *)
(* toString and parseFloat are computed character by character. Numbers    *)
(* are the integers (the decimal text of an integer has no fraction and no *)
(* exponent) and NaN. An object is the sequence of its own enumerable      *)
(* entries [k |-> name, v |-> value] in iteration order.                   *)
(***************************************************************************)
EXTENDS Integers, Sequences, FiniteSets, TLC

VARIABLES
    store,  \* the caller-owned objects the functions mutate in place, by reference
    call,   \* the last invocation: the function, its arguments, the state before it
    ret,    \* its outcome: a returned value or a thrown TypeError
    log     \* the outcomes of the earlier invocations, oldest first

vars == <<store, call, ret, log>>

(***************************** bounds *************************************)
MaxNum == 11
MaxStrLen == 1
MaxArrLen == 2
MaxFields == 2
MaxCalls == 2
MaxAttrs == 3
MaxObjects == 1

(************************* JavaScript values ******************************)
Undefined == [t |-> "undefined"]
Null == [t |-> "null"]
NaN == [t |-> "nan"]
Num(n) == [t |-> "number", v |-> n]
Str(cs) == [t |-> "string", v |-> cs]
Bool(b) == [t |-> "boolean", v |-> b]
Arr(xs) == [t |-> "array", v |-> xs]
Obj(es) == [t |-> "object", v |-> es]
Entry(k, x) == [k |-> k, v |-> x]

\* lodash isArray, isNumber (typeof NaN is "number"), isString, isObject
IsArray(x) == x.t = "array"
IsNumber(x) == x.t \in {"number", "nan"}
IsString(x) == x.t = "string"
IsObject(x) == x.t \in {"object", "array"}

\* ToBoolean
Truthy(x) ==
    CASE x.t = "number" -> x.v # 0
      [] x.t = "string" -> x.v # <<>>
      [] x.t = "boolean" -> x.v
      [] x.t \in {"object", "array"} -> TRUE
      [] OTHER -> FALSE

\* obj[k] for an own property, undefined when absent
HasKey(es, k) == \E i \in 1..Len(es) : es[i].k = k
ObjGet(o, k) ==
    IF o.t = "object" /\ HasKey(o.v, k)
    THEN o.v[CHOOSE i \in 1..Len(o.v) : o.v[i].k = k].v
    ELSE Undefined

\* obj[k] = x: an existing property keeps its place, a new one comes last
ObjSet(o, k, x) ==
    IF HasKey(o.v, k)
    THEN Obj([i \in 1..Len(o.v) |-> IF o.v[i].k = k THEN Entry(k, x) ELSE o.v[i]])
    ELSE Obj(Append(o.v, Entry(k, x)))

(***************************** text ***************************************)
Digits == <<"0", "1", "2", "3", "4", "5", "6", "7", "8", "9">>
IsDigit(c) == \E d \in 1..10 : Digits[d] = c
DigitVal(c) == (CHOOSE d \in 1..10 : Digits[d] = c) - 1

RECURSIVE NatToChars(_)
NatToChars(n) ==
    IF n < 10 THEN <<Digits[n + 1]>>
    ELSE NatToChars(n \div 10) \o <<Digits[(n % 10) + 1]>>

\* Number.prototype.toString on an integer
IntToChars(n) == IF n < 0 THEN <<"-">> \o NatToChars(-n) ELSE NatToChars(n)

RECURSIVE CharsToNat(_)
CharsToNat(cs) ==
    IF cs = <<>> THEN 0
    ELSE 10 * CharsToNat(SubSeq(cs, 1, Len(cs) - 1)) + DigitVal(cs[Len(cs)])

RECURSIVE DigitPrefix(_)
DigitPrefix(cs) ==
    IF cs = <<>> \/ ~IsDigit(cs[1]) THEN <<>>
    ELSE <<cs[1]>> \o DigitPrefix(Tail(cs))

RECURSIVE Join(_, _)
Join(parts, sep) ==
    IF parts = <<>> THEN <<>>
    ELSE IF Len(parts) = 1 THEN parts[1]
    ELSE parts[1] \o sep \o Join(Tail(parts), sep)

\* String(x), x.toString() and `${x}`
RECURSIVE ToStr(_)
ToStr(x) ==
    CASE x.t = "number" -> IntToChars(x.v)
      [] x.t = "nan" -> <<"N", "a", "N">>
      [] x.t = "string" -> x.v
      [] x.t = "boolean" -> IF x.v THEN <<"t", "r", "u", "e">> ELSE <<"f", "a", "l", "s", "e">>
      [] x.t = "null" -> <<"n", "u", "l", "l">>
      [] x.t = "undefined" -> <<"u", "n", "d", "e", "f", "i", "n", "e", "d">>
      [] x.t = "array" ->
            Join([i \in 1..Len(x.v) |->
                    IF x.v[i].t \in {"null", "undefined"} THEN <<>> ELSE ToStr(x.v[i])],
                 <<",">>)
      [] OTHER -> <<"[", "o", "b", "j", "e", "c", "t", " ", "O", "b", "j", "e", "c", "t", "]">>

\* the number a decimal integer literal with an optional sign denotes
SignedDigits(cs, whole) ==
    LET neg == cs # <<>> /\ cs[1] = "-"
        body == IF cs # <<>> /\ cs[1] \in {"-", "+"} THEN Tail(cs) ELSE cs
        ds == DigitPrefix(body)
    IN  IF ds = <<>> \/ (whole /\ ds # body) THEN NaN
        ELSE Num(IF neg THEN -CharsToNat(ds) ELSE CharsToNat(ds))

\* Number(x): the whole text must be a literal, the empty text is 0
ToNumber(x) ==
    CASE x.t \in {"number", "nan"} -> x
      [] x.t = "boolean" -> Num(IF x.v THEN 1 ELSE 0)
      [] x.t = "null" -> Num(0)
      [] x.t = "undefined" -> NaN
      [] OTHER -> IF ToStr(x) = <<>> THEN Num(0) ELSE SignedDigits(ToStr(x), TRUE)

\* parseFloat(x): the longest literal the text starts with
parseFloat(x) == SignedDigits(ToStr(x), FALSE)

\* the constructors Number and String used as the predicate of _.every
NumberPredicate(x) == Truthy(ToNumber(x))
StringPredicate(x) == Truthy(Str(ToStr(x)))
EveryNumber(xs) == \A i \in 1..Len(xs) : NumberPredicate(xs[i])
EveryString(xs) == \A i \in 1..Len(xs) : StringPredicate(xs[i])

(***************************** outcomes ***********************************)
Return(x) == [ok |-> TRUE, val |-> x]
Throw(m) == [ok |-> FALSE, err |-> "TypeError", msg |-> m]
TypeMismatch == "Expected homogenous array of numbers or strings"
UnsupportedType == "Object is not serializable to a dynamo data type"
MissingArgument == "Cannot call convert_to_dynamo() with no arguments"
NotAnObject == "Cannot read properties of undefined or null"

kN == <<"N">>
kS == <<"S">>
kNS == <<"N", "S">>
kSS == <<"S", "S">>

(*************************** value codec **********************************)
formatToDynamoItem(item) ==
    IF IsArray(item) THEN
        IF EveryNumber(item.v)
        THEN Return(Obj(<<Entry(kNS, Arr([i \in 1..Len(item.v) |-> Str(ToStr(item.v[i]))]))>>))
        ELSE IF EveryString(item.v)
        THEN Return(Obj(<<Entry(kSS, item)>>))
        ELSE Throw(TypeMismatch)
    ELSE IF IsNumber(item) THEN Return(Obj(<<Entry(kN, Str(ToStr(item)))>>))
    ELSE IF IsString(item) THEN Return(Obj(<<Entry(kS, item)>>))
    ELSE IF IsObject(item) THEN Throw(UnsupportedType)
    ELSE IF ~Truthy(item) THEN Throw(MissingArgument)
    ELSE Return(Obj(<<>>))

\* what the callback of _.transform does with one entry: throw, assign or skip
Skip == [skip |-> TRUE]
mapParseFloat(c) ==
    CASE c.t = "array" -> Arr([i \in 1..Len(c.v) |-> parseFloat(c.v[i])])
      [] c.t = "string" -> Arr([i \in 1..Len(c.v) |-> parseFloat(Str(<<c.v[i]>>))])
      [] c.t = "object" -> Arr([i \in 1..Len(c.v) |-> parseFloat(c.v[i].v)])
      [] OTHER -> Arr(<<>>)

transformEntry(val) ==
    IF val.t \in {"null", "undefined"} THEN Throw(NotAnObject)
    ELSE IF Truthy(ObjGet(val, kS)) THEN Return(ObjGet(val, kS))
    ELSE IF Truthy(ObjGet(val, kSS)) THEN Return(ObjGet(val, kSS))
    ELSE IF Truthy(ObjGet(val, kN)) THEN Return(parseFloat(ObjGet(val, kN)))
    ELSE IF Truthy(ObjGet(val, kNS)) THEN Return(mapParseFloat(ObjGet(val, kNS)))
    ELSE Skip

RECURSIVE AssignedEntries(_)
AssignedEntries(es) ==
    IF es = <<>> THEN <<>>
    ELSE LET r == transformEntry(es[1].v)
         IN  (IF r = Skip THEN <<>> ELSE <<Entry(es[1].k, r.val)>>) \o AssignedEntries(Tail(es))

\* _.transform(item, callback): a new object (a new array for an array) holding
\* the assigned entries; an index the callback skipped is a hole, read as undefined
transform(item) ==
    LET vals == IF IsArray(item) THEN item.v ELSE [i \in 1..Len(item.v) |-> item.v[i].v]
        outs == [i \in 1..Len(vals) |-> transformEntry(vals[i])]
        set == {i \in 1..Len(vals) : outs[i] # Skip}
        last == IF set = {} THEN 0 ELSE CHOOSE i \in set : \A j \in set : j <= i
    IN  IF \E i \in 1..Len(vals) : outs[i] # Skip /\ ~outs[i].ok THEN Throw(NotAnObject)
        ELSE IF IsArray(item)
        THEN Return(Arr([i \in 1..last |-> IF i \in set THEN outs[i].val ELSE Undefined]))
        ELSE Return(Obj(AssignedEntries(item.v)))

RECURSIVE formatFromDynamoItem(_)
formatFromDynamoItem(item) ==
    IF IsArray(item) /\ \E i \in 1..Len(item.v) : ~formatFromDynamoItem(item.v[i]).ok
    THEN Throw(NotAnObject)
    ELSE IF IsObject(item) THEN transform(item)
    ELSE Return(Obj(<<>>))

(************************* the caller's inputs ****************************)
Alphabet == {"a", "0", "1"}
Texts == UNION {[1..n -> Alphabet] : n \in 0..MaxStrLen}
Scalars ==
    {Num(n) : n \in -1..MaxNum} \cup {NaN} \cup {Str(s) : s \in Texts}
        \cup {Null, Undefined, Bool(TRUE), Bool(FALSE)}
Elements == Scalars \cup {Obj(<<>>), Arr(<<>>)}
Arrays == {Arr(xs) : xs \in UNION {[1..n -> Elements] : n \in 0..MaxArrLen}}
Nested == {Obj(<<Entry(<<"a">>, x)>>) : x \in {Num(1), Null, Obj(<<Entry(kS, Null)>>)}}
CodecInputs == Scalars \cup Arrays \cup Nested

(************************ value codec: the calls **************************)
NoCall == [op |-> "none"]

InitCodec ==
    /\ store \in {<<x>> : x \in CodecInputs}
    /\ call = NoCall
    /\ ret = Return(Undefined)
    /\ log = <<>>

Encode ==
    /\ call = NoCall
    /\ call' = [op |-> "formatToDynamoItem", arg |-> store[1]]
    /\ ret' = formatToDynamoItem(store[1])
    /\ UNCHANGED <<store, log>>

Decode ==
    /\ call = NoCall
    /\ call' = [op |-> "formatFromDynamoItem", arg |-> store[1]]
    /\ ret' = formatFromDynamoItem(store[1])
    /\ UNCHANGED <<store, log>>

\* Decode applied to what Encode returned
DecodeEncoded ==
    /\ call.op = "formatToDynamoItem"
    /\ ret.ok
    /\ call' = [op |-> "formatFromDynamoItem", arg |-> ret.val]
    /\ ret' = formatFromDynamoItem(ret.val)
    /\ log' = Append(log, [call |-> call, ret |-> ret])
    /\ UNCHANGED store

NextCodec == Encode \/ Decode \/ DecodeEncoded
SpecCodec == InitCodec /\ [][NextCodec]_vars

(***************************** item codec *********************************)
\* a reference to the caller's object store[id]: what a function that returns
\* its argument hands back
Ref(id) == [t |-> "ref", id |-> id]

\* the loop made all-or-nothing: nothing is written when some field fails
toItemsAllOrNothing(items, i) ==
    LET outs == [j \in 1..Len(items.v) |-> formatToDynamoItem(items.v[j].v)]
        bad == {j \in i..Len(items.v) : ~outs[j].ok}
    IN  IF bad # {}
        THEN [obj |-> items, out |-> outs[CHOOSE j \in bad : \A m \in bad : j <= m]]
        ELSE [obj |-> Obj([j \in 1..Len(items.v) |->
                            IF j < i THEN items.v[j] ELSE Entry(items.v[j].k, outs[j].val)]),
              out |-> Return(items)]

\* the _.forIn loop of formatToDynamoItems from the i-th key on: each field is
\* overwritten as it is visited, and an exception leaves the loop where it is
RECURSIVE toItemsFrom(_, _)
toItemsFrom(items, i) ==
    IF i > Len(items.v) THEN [obj |-> items, out |-> Return(items)]
    ELSE LET r == formatToDynamoItem(items.v[i].v)
         IN  IF ~r.ok THEN [obj |-> items, out |-> r]
             ELSE toItemsFrom(ObjSet(items, items.v[i].k, r.val), i + 1)

RECURSIVE fromItemsFrom(_, _)
fromItemsFrom(items, i) ==
    IF i > Len(items.v) THEN [obj |-> items, out |-> Return(items)]
    ELSE LET r == formatFromDynamoItem(items.v[i].v)
         IN  IF ~r.ok THEN [obj |-> items, out |-> r]
             ELSE fromItemsFrom(ObjSet(items, items.v[i].k, r.val), i + 1)

\* the object after the call, and the outcome: the argument itself, or the error
formatToDynamoItems(items) == toItemsFrom(items, 1)
formatFromDynamoItems(items) == fromItemsFrom(items, 1)

FieldName(i) == <<"f">> \o NatToChars(i)
NativeVals ==
    {Num(5), Str(<<"a">>), Str(<<>>), Arr(<<Num(1), Num(2)>>), Null, Bool(TRUE)}
TypedVals ==
    { Obj(<<Entry(kS, Str(<<"a">>))>>), Obj(<<Entry(kN, Str(<<"5">>))>>),
      Obj(<<Entry(kSS, Arr(<<Str(<<"a">>), Str(<<"b">>)>>))>>),
      Obj(<<Entry(kNS, Arr(<<Str(<<"1">>), Str(<<"2">>)>>))>>),
      Obj(<<Entry(<<"B">>, Str(<<"a">>))>>), Obj(<<Entry(kS, Null)>>) }
FieldVals == NativeVals \cup TypedVals
ItemRecords ==
    UNION {{Obj([i \in 1..n |-> Entry(FieldName(i), f[i])]) : f \in [1..n -> FieldVals]} :
            n \in 0..MaxFields}

Calls == Len(log) + (IF call = NoCall THEN 0 ELSE 1)
Logged == IF call = NoCall THEN log ELSE Append(log, [call |-> call, ret |-> ret])

InitItems ==
    /\ store \in {<<r>> : r \in ItemRecords}
    /\ call = NoCall
    /\ ret = Return(Undefined)
    /\ log = <<>>

\* the result of an in-place function: the object is replaced in the store and
\* a returned object is the reference that was passed
InPlace(op, id, done) ==
    /\ call' = [op |-> op, ref |-> id, pre |-> store[id]]
    /\ store' = [store EXCEPT ![id] = done.obj]
    /\ ret' = IF done.out.ok THEN Return(Ref(id)) ELSE done.out
    /\ log' = Logged

FormatToDynamoItems ==
    /\ Calls < MaxCalls
    /\ InPlace("formatToDynamoItems", 1, formatToDynamoItems(store[1]))

FormatFromDynamoItems ==
    /\ Calls < MaxCalls
    /\ InPlace("formatFromDynamoItems", 1, formatFromDynamoItems(store[1]))

\* formatFromDynamoItem on the whole record: it returns a new object
FormatFromDynamoItem ==
    /\ Calls < MaxCalls
    /\ call' = [op |-> "formatFromDynamoItem", arg |-> store[1]]
    /\ ret' = formatFromDynamoItem(store[1])
    /\ log' = Logged
    /\ UNCHANGED store

NextItems == FormatToDynamoItems \/ FormatFromDynamoItems \/ FormatFromDynamoItem
SpecItems == InitItems /\ [][NextItems]_vars

(************************* property names and text ************************)
kTableName == <<"T", "a", "b", "l", "e", "N", "a", "m", "e">>
kAttributeDefinitions == <<"A", "t", "t", "r", "i", "b", "u", "t", "e", "D", "e", "f", "i", "n", "i", "t", "i", "o", "n", "s">>
kKeySchema == <<"K", "e", "y", "S", "c", "h", "e", "m", "a">>
kProvisionedThroughput == <<"P", "r", "o", "v", "i", "s", "i", "o", "n", "e", "d", "T", "h", "r", "o", "u", "g", "h", "p", "u", "t">>
kReadCapacityUnits == <<"R", "e", "a", "d", "C", "a", "p", "a", "c", "i", "t", "y", "U", "n", "i", "t", "s">>
kWriteCapacityUnits == <<"W", "r", "i", "t", "e", "C", "a", "p", "a", "c", "i", "t", "y", "U", "n", "i", "t", "s">>
kAttributeName == <<"A", "t", "t", "r", "i", "b", "u", "t", "e", "N", "a", "m", "e">>
kAttributeType == <<"A", "t", "t", "r", "i", "b", "u", "t", "e", "T", "y", "p", "e">>
kKeyType == <<"K", "e", "y", "T", "y", "p", "e">>
kName == <<"n", "a", "m", "e">>
kType == <<"t", "y", "p", "e">>
kUnique == <<"u", "n", "i", "q", "u", "e">>
kConditionExpression == <<"C", "o", "n", "d", "i", "t", "i", "o", "n", "E", "x", "p", "r", "e", "s", "s", "i", "o", "n">>
kExpressionAttributeNames == <<"E", "x", "p", "r", "e", "s", "s", "i", "o", "n", "A", "t", "t", "r", "i", "b", "u", "t", "e", "N", "a", "m", "e", "s">>
kExpressionAttributeValues == <<"E", "x", "p", "r", "e", "s", "s", "i", "o", "n", "A", "t", "t", "r", "i", "b", "u", "t", "e", "V", "a", "l", "u", "e", "s">>
kUpdateExpression == <<"U", "p", "d", "a", "t", "e", "E", "x", "p", "r", "e", "s", "s", "i", "o", "n">>
sHASH == <<"H", "A", "S", "H">>
sRANGE == <<"R", "A", "N", "G", "E">>
sAttribute == <<"A", "t", "t", "r", "i", "b", "u", "t", "e">>
sValue == <<"V", "a", "l", "u", "e">>
sSET == <<"S", "E", "T", " ">>
sAND == <<" ", "A", "N", "D", " ">>
sComma == <<",", " ">>
sEquals == <<" ", "=", " ">>
sNotExists == <<"a", "t", "t", "r", "i", "b", "u", "t", "e", "_", "n", "o", "t", "_", "e", "x", "i", "s", "t", "s", "(">>

(**************************** schema builder ******************************)
formatSchemaParams(keys) ==
    Obj(<< Entry(kAttributeDefinitions,
                 Arr([i \in 1..Len(keys) |->
                        Obj(<<Entry(kAttributeName, ObjGet(keys[i], kName)),
                              Entry(kAttributeType, ObjGet(keys[i], kType))>>)])),
           Entry(kKeySchema,
                 Arr([i \in 1..Len(keys) |->
                        Obj(<<Entry(kAttributeName, ObjGet(keys[i], kName)),
                              Entry(kKeyType, Str(IF i - 1 # 0 THEN sRANGE ELSE sHASH))>>)])) >>)

Throughput(r, w) ==
    Obj(<<Entry(kReadCapacityUnits, Num(r)), Entry(kWriteCapacityUnits, Num(w))>>)

\* createTable with the key definitions put before the caller's definitions
createTablePrepending(tableName, hashKey, rangeKey, params) ==
    LET keys == IF Truthy(rangeKey) THEN <<hashKey, rangeKey>> ELSE <<hashKey>>
        p1 == ObjSet(params, kTableName, tableName)
        schema == formatSchemaParams(keys)
        attributes ==
            IF Truthy(ObjGet(p1, kAttributeDefinitions))
            THEN ObjGet(p1, kAttributeDefinitions) ELSE Arr(<<>>)
        p2 == ObjSet(p1, kAttributeDefinitions,
                     Arr(ObjGet(schema, kAttributeDefinitions).v \o attributes.v))
        p3 == ObjSet(p2, kKeySchema, ObjGet(schema, kKeySchema))
    IN  ObjSet(p3, kProvisionedThroughput, Throughput(1, 1))

\* the params object after createTable(tableName, hashKey, rangeKey, params)
createTable(tableName, hashKey, rangeKey, params) ==
    LET keys == IF Truthy(rangeKey) THEN <<hashKey, rangeKey>> ELSE <<hashKey>>
        p1 == ObjSet(params, kTableName, tableName)
        schema == formatSchemaParams(keys)
        attributes ==
            IF Truthy(ObjGet(p1, kAttributeDefinitions))
            THEN ObjGet(p1, kAttributeDefinitions) ELSE Arr(<<>>)
        p2 == ObjSet(p1, kAttributeDefinitions,
                     Arr(attributes.v \o ObjGet(schema, kAttributeDefinitions).v))
        p3 == ObjSet(p2, kKeySchema, ObjGet(schema, kKeySchema))
    IN  ObjSet(p3, kProvisionedThroughput, Throughput(1, 1))

KeyDescriptor(n, ty) == Obj(<<Entry(kName, Str(n)), Entry(kType, Str(ty))>>)
TableNames == {Str(<<"t">>)}
HashKeys == {KeyDescriptor(<<"i", "d">>, kS), KeyDescriptor(<<"n">>, kN)}
RangeKeys == {Undefined, Null, KeyDescriptor(<<"t", "s">>, kN)}
CallerParams ==
    { Obj(<<>>),
      Obj(<<Entry(kProvisionedThroughput, Throughput(5, 5))>>),
      Obj(<<Entry(kAttributeDefinitions,
                  Arr(<<Obj(<<Entry(kAttributeName, Str(<<"x">>)),
                              Entry(kAttributeType, Str(kS))>>)>>)),
            Entry(kKeySchema, Arr(<<Str(<<"x">>)>>)),
            Entry(kProvisionedThroughput, Throughput(5, 5))>>) }

AttrCount(o) ==
    IF Truthy(ObjGet(o, kAttributeDefinitions)) THEN Len(ObjGet(o, kAttributeDefinitions).v) ELSE 0
KeyCount(rangeKey) == IF Truthy(rangeKey) THEN 2 ELSE 1

InitTable ==
    /\ store = <<>>
    /\ call = NoCall
    /\ ret = Return(Undefined)
    /\ log = <<>>

Created(id, passed, pre, tableName, hashKey, rangeKey) ==
    /\ call' = [op |-> "createTable", ref |-> id, passed |-> passed, pre |-> pre,
                tableName |-> tableName, hashKey |-> hashKey, rangeKey |-> rangeKey]
    /\ ret' = Return(Ref(id))
    /\ UNCHANGED log

\* params is an object the caller already holds, a descriptor returned earlier included
CreateTableAgain ==
    \E tableName \in TableNames, hashKey \in HashKeys, rangeKey \in RangeKeys :
    \E id \in 1..Len(store) :
        /\ AttrCount(store[id]) + KeyCount(rangeKey) <= MaxAttrs
        /\ store' = [store EXCEPT ![id] = createTable(tableName, hashKey, rangeKey, store[id])]
        /\ Created(id, TRUE, store[id], tableName, hashKey, rangeKey)

\* params is an object the caller makes for this call
CreateTableWith ==
    \E tableName \in TableNames, hashKey \in HashKeys, rangeKey \in RangeKeys :
    \E params \in CallerParams :
        /\ Len(store) < MaxObjects
        /\ AttrCount(params) + KeyCount(rangeKey) <= MaxAttrs
        /\ store' = Append(store, createTable(tableName, hashKey, rangeKey, params))
        /\ Created(Len(store) + 1, TRUE, params, tableName, hashKey, rangeKey)

\* params is left out: the default {} is a new object
CreateTableDefault ==
    \E tableName \in TableNames, hashKey \in HashKeys, rangeKey \in RangeKeys :
        /\ Len(store) < MaxObjects
        /\ store' = Append(store, createTable(tableName, hashKey, rangeKey, Obj(<<>>)))
        /\ Created(Len(store) + 1, FALSE, Obj(<<>>), tableName, hashKey, rangeKey)

NextTable == CreateTableAgain \/ CreateTableWith \/ CreateTableDefault
SpecTable == InitTable /\ [][NextTable]_vars

(************************** expression builders ***************************)
conditionBuilder(condition) ==
    LET c == IF condition = Undefined THEN Obj(<<>>) ELSE condition
        keys == ObjGet(c, kUnique)
        conditionArray ==
            IF EveryString(keys.v)
            THEN [i \in 1..Len(keys.v) |-> sNotExists \o ToStr(keys.v[i]) \o <<")">>]
            ELSE <<>>
    IN  IF c = Null THEN Throw(NotAnObject)
        ELSE IF Truthy(keys) /\ IsArray(keys)
        THEN Return(Obj(<<Entry(kConditionExpression, Str(Join(conditionArray, sAND)))>>))
        ELSE Return(Null)

\* a name placeholder that leaves the field name out
NamePlaceholderWithoutKey(key) == <<"#">> \o sAttribute

NamePlaceholder(key) == <<"#">> \o key \o sAttribute
ValuePlaceholder(key) == <<":">> \o key \o sValue
Fragment(key) == NamePlaceholder(key) \o sEquals \o ValuePlaceholder(key)

\* the _.forIn loop of updateItem from the i-th key on
RECURSIVE updateFrom(_, _, _, _, _)
updateFrom(keys, i, names, values, updateExpression) ==
    IF i > Len(keys.v)
    THEN Return(Obj(<<Entry(kExpressionAttributeNames, names),
                      Entry(kExpressionAttributeValues, values),
                      Entry(kUpdateExpression, Str(sSET \o Join(updateExpression, sComma)))>>))
    ELSE LET key == keys.v[i].k
             r == formatToDynamoItem(keys.v[i].v)
         IN  IF ~r.ok THEN r
             ELSE updateFrom(keys, i + 1, ObjSet(names, NamePlaceholder(key), Str(key)),
                             ObjSet(values, ValuePlaceholder(key), r.val),
                             Append(updateExpression, Fragment(key)))

updateItem(keys) ==
    updateFrom(IF keys.t = "object" THEN keys ELSE Obj(<<>>), 1, Obj(<<>>), Obj(<<>>), <<>>)

FieldNames == {<<"a">>, <<"b">>, <<"a", "b">>, <<>>}
UpdateVals == {Num(5), Str(<<"b", "o", "b">>), Arr(<<Num(1), Num(2)>>), Null}
DistinctKeys(ks) == \A i, j \in 1..Len(ks) : i # j => ks[i] # ks[j]
UpdateRecords ==
    UNION {{Obj([i \in 1..n |-> Entry(ks[i], f[i])]) :
                ks \in {q \in [1..n -> FieldNames] : DistinctKeys(q)}, f \in [1..n -> UpdateVals]} :
            n \in 0..MaxFields}
UniqueElements == {Str(s) : s \in Texts} \cup {Str(<<"a", "b">>), Num(1), Null}
Conditions ==
    {Obj(<<Entry(kUnique, Arr(xs))>>) : xs \in UNION {[1..n -> UniqueElements] : n \in 0..MaxArrLen}}
        \cup {Obj(<<Entry(kUnique, Str(<<"a">>))>>), Obj(<<Entry(<<"e", "q", "u", "a", "l", "s">>, Str(<<"a">>))>>),
              Undefined, Null}
ExprInputs == UpdateRecords \cup Conditions

InitExpr ==
    /\ store \in {<<x>> : x \in ExprInputs}
    /\ call = NoCall
    /\ ret = Return(Undefined)
    /\ log = <<>>

UpdateItem ==
    /\ call = NoCall
    /\ call' = [op |-> "updateItem", arg |-> store[1]]
    /\ ret' = updateItem(store[1])
    /\ UNCHANGED <<store, log>>

ConditionBuilder ==
    /\ call = NoCall
    /\ call' = [op |-> "conditionBuilder", arg |-> store[1]]
    /\ ret' = conditionBuilder(store[1])
    /\ UNCHANGED <<store, log>>

NextExpr == UpdateItem \/ ConditionBuilder
SpecExpr == InitExpr /\ [][NextExpr]_vars

(***************************** properties *********************************)
\* a typed attribute as the data model defines it: one tag among N, S, NS, SS
\* whose payload is a string (N, S) or an array of strings (NS, SS)
IsTypedAttribute(x) ==
    /\ x.t = "object"
    /\ Len(x.v) = 1
    /\ \/ x.v[1].k \in {kN, kS} /\ x.v[1].v.t = "string"
       \/ /\ x.v[1].k \in {kNS, kSS}
          /\ x.v[1].v.t = "array"
          /\ \A i \in 1..Len(x.v[1].v.v) : x.v[1].v.v[i].t = "string"

\* the native value a typed attribute stands for
NativeOf(x) ==
    LET payload == x.v[1].v
    IN  CASE x.v[1].k = kN -> parseFloat(payload)
          [] x.v[1].k = kNS -> Arr([i \in 1..Len(payload.v) |-> parseFloat(payload.v[i])])
          [] OTHER -> payload

AllOfType(xs, ty) == \A i \in 1..Len(xs) : xs[i].t = ty
SomeOfType(xs, ty) == \E i \in 1..Len(xs) : xs[i].t = ty

\* C1: Decode is a left inverse of Encode on scalars: formatFromDynamoItem
\* applied to what formatToDynamoItem returned for a number n or a string s
\* returns n (as parsed back from its decimal text), respectively s.
C1_DecodeInvertsEncode ==
    (/\ call.op = "formatFromDynamoItem"
     /\ log # <<>>
     /\ log[Len(log)].call.op = "formatToDynamoItem"
     /\ store[1].t \in {"number", "string"})
        => ret = Return(IF store[1].t = "number" THEN parseFloat(store[1]) ELSE store[1])

\* C2: formatToDynamoItem classifies a non-empty homogeneous array by the type
\* of its elements: all numbers (0 included) gives {NS: [decimal texts in
\* order]}, all strings ("1" included) gives {SS: [the same strings in order]}.
C2_HomogeneousArrays ==
    (call.op = "formatToDynamoItem" /\ IsArray(call.arg) /\ call.arg.v # <<>>)
        => /\ AllOfType(call.arg.v, "number")
                => ret = Return(Obj(<<Entry(kNS,
                            Arr([i \in 1..Len(call.arg.v) |-> Str(IntToChars(call.arg.v[i].v))]))>>))
           /\ AllOfType(call.arg.v, "string")
                => ret = Return(Obj(<<Entry(kSS, call.arg)>>))

\* C3: formatToDynamoItem raises TypeMismatch, and returns nothing, for every
\* array that holds at least one number and at least one string.
C3_MixedArrayRaises ==
    (/\ call.op = "formatToDynamoItem"
     /\ IsArray(call.arg)
     /\ SomeOfType(call.arg.v, "number")
     /\ SomeOfType(call.arg.v, "string"))
        => ret = Throw(TypeMismatch)

\* C4: whenever formatToDynamoItem returns, the result has exactly one key,
\* the key is one of N, S, NS, SS, and the payload is a string (N, S) or an
\* array of strings (NS, SS): no number is carried as a number.
C4_TypedAttributeInvariant ==
    (call.op = "formatToDynamoItem" /\ ret.ok) => IsTypedAttribute(ret.val)

\* C5: decoding never raises: formatFromDynamoItem and formatFromDynamoItems
\* return a result for every mapping, also one whose field values are null,
\* undefined or untagged.
C5_DecodeNeverRaises ==
    call.op \in {"formatFromDynamoItem", "formatFromDynamoItems"} => ret.ok

\* C6: when formatToDynamoItems(r) returns, the result is r itself with the
\* same field names and every field holds Encode of its previous value; when
\* formatFromDynamoItems(r) returns for a record of typed attributes, the
\* result is r itself with the same field names and every field holds the
\* native value of its previous typed attribute.
C6_ItemCodecInPlace ==
    /\ (call.op = "formatToDynamoItems" /\ ret.ok)
          => /\ ret.val = Ref(call.ref)
             /\ store[call.ref] =
                    Obj([i \in 1..Len(call.pre.v) |->
                            Entry(call.pre.v[i].k, formatToDynamoItem(call.pre.v[i].v).val)])
    /\ (/\ call.op = "formatFromDynamoItems"
        /\ ret.ok
        /\ \A i \in 1..Len(call.pre.v) : IsTypedAttribute(call.pre.v[i].v))
          => /\ ret.val = Ref(call.ref)
             /\ store[call.ref] =
                    Obj([i \in 1..Len(call.pre.v) |->
                            Entry(call.pre.v[i].k, NativeOf(call.pre.v[i].v))])

\* C7: after every createTable call, a call on a descriptor returned earlier
\* included: the returned object is the params object of the call, KeySchema
\* is the HASH entry followed by the RANGE entry iff a range key was given,
\* ProvisionedThroughput is {1, 1} whatever the caller supplied, and
\* AttributeDefinitions is the list params held before the call followed by
\* the key definitions of this call, hash then range.
C7_TableDescriptor ==
    call.op = "createTable" =>
        LET given == call.rangeKey \notin {Undefined, Null}
            before == IF HasKey(call.pre.v, kAttributeDefinitions)
                      THEN ObjGet(call.pre, kAttributeDefinitions).v ELSE <<>>
            definition(key) == Obj(<<Entry(kAttributeName, ObjGet(key, kName)),
                                     Entry(kAttributeType, ObjGet(key, kType))>>)
            schema(key, keyType) == Obj(<<Entry(kAttributeName, ObjGet(key, kName)),
                                          Entry(kKeyType, Str(keyType))>>)
            params == store[call.ref]
        IN  /\ ret = Return(Ref(call.ref))
            /\ ObjGet(params, kTableName) = call.tableName
            /\ ObjGet(params, kKeySchema) =
                  Arr(<<schema(call.hashKey, sHASH)>>
                        \o (IF given THEN <<schema(call.rangeKey, sRANGE)>> ELSE <<>>))
            /\ ObjGet(params, kProvisionedThroughput) = Throughput(1, 1)
            /\ ObjGet(params, kAttributeDefinitions) =
                  Arr(before \o <<definition(call.hashKey)>>
                        \o (IF given THEN <<definition(call.rangeKey)>> ELSE <<>>))

\* C7 witness: a descriptor that createTable returned is passed back with a
\* range key, and now holds the definitions of both calls
C7_Witness ==
    /\ call.op = "createTable"
    /\ call.passed
    /\ HasKey(call.pre.v, kTableName)
    /\ call.rangeKey \notin {Undefined, Null}
    /\ AttrCount(store[call.ref]) = 3

\* C8: for every record of encodable values updateItem returns one name
\* placeholder '#kAttribute' -> k and one value placeholder ':kValue' ->
\* Encode(v) per field, in field order, and UpdateExpression is 'SET ' followed
\* by the fragments '#kAttribute = :kValue' joined by ', ' in field order;
\* distinct field names never share a placeholder.
C8_UpdateExpression ==
    (/\ call.op = "updateItem"
     /\ call.arg.t = "object"
     /\ \A i \in 1..Len(call.arg.v) : formatToDynamoItem(call.arg.v[i].v).ok)
        => LET fields == call.arg.v
               name(i) == <<"#">> \o fields[i].k \o sAttribute
               value(i) == <<":">> \o fields[i].k \o sValue
           IN  /\ ret.ok
               /\ ObjGet(ret.val, kExpressionAttributeNames) =
                     Obj([i \in 1..Len(fields) |-> Entry(name(i), Str(fields[i].k))])
               /\ ObjGet(ret.val, kExpressionAttributeValues) =
                     Obj([i \in 1..Len(fields) |->
                             Entry(value(i), formatToDynamoItem(fields[i].v).val)])
               /\ ObjGet(ret.val, kUpdateExpression) =
                     Str(sSET \o Join([i \in 1..Len(fields) |-> name(i) \o sEquals \o value(i)],
                                      sComma))
               /\ \A i, j \in 1..Len(fields) :
                     i # j => name(i) # name(j) /\ value(i) # value(j)

\* C8 witness: updateItem has returned for a record of two fields
C8_Witness ==
    /\ call.op = "updateItem"
    /\ ret.ok
    /\ call.arg.t = "object"
    /\ Len(call.arg.v) = 2
    /\ HasKey(call.arg.v, <<"a">>)
    /\ HasKey(call.arg.v, <<"a", "b">>)

\* C9: for every non-empty array of strings given as the unique list,
\* conditionBuilder produces one 'attribute_not_exists(<field>)' term per
\* field, in order, joined by ' AND '; with no unique list it returns null.
C9_UniquenessCondition ==
    (call.op = "conditionBuilder" /\ call.arg # Null) =>
        LET unique == ObjGet(call.arg, kUnique)
        IN  /\ (IsArray(unique) /\ unique.v # <<>> /\ AllOfType(unique.v, "string"))
                  => ret = Return(Obj(<<Entry(kConditionExpression,
                                Str(Join([i \in 1..Len(unique.v) |->
                                            sNotExists \o unique.v[i].v \o <<")">>], sAND)))>>))
            /\ ~IsArray(unique) => ret = Return(Null)

\* the first field on which Encode raises
FirstFailing(record) ==
    CHOOSE f \in 1..Len(record.v) :
        /\ ~formatToDynamoItem(record.v[f].v).ok
        /\ \A i \in 1..(f - 1) : formatToDynamoItem(record.v[i].v).ok

\* C10: formatToDynamoItems is not all-or-nothing. When Encode raises on field
\* f the call ends with that error, every field before f holds its typed
\* attribute, and f and the later fields hold their original values. Calling
\* formatToDynamoItems again on that record raises UnsupportedType on the first
\* converted field and changes nothing (when f is the first field nothing was
\* converted, and the call raises the error of f again).
C10_PartialConversion ==
    (call.op = "formatToDynamoItems" /\ ~ret.ok) =>
        LET f == FirstFailing(call.pre)
            now == store[call.ref]
        IN  /\ ret = formatToDynamoItem(call.pre.v[f].v)
            /\ Len(now.v) = Len(call.pre.v)
            /\ \A i \in 1..Len(now.v) :
                  now.v[i] = IF i < f
                             THEN Entry(call.pre.v[i].k, formatToDynamoItem(call.pre.v[i].v).val)
                             ELSE call.pre.v[i]
            /\ (/\ log # <<>>
                /\ log[Len(log)].call.op = "formatToDynamoItems"
                /\ ~log[Len(log)].ret.ok)
                  => /\ now = call.pre
                     /\ ret = IF FirstFailing(log[Len(log)].call.pre) > 1
                              THEN Throw(UnsupportedType) ELSE log[Len(log)].ret

\* C10 witness: the second of two failed formatToDynamoItems calls on a record
\* whose first field the first call had converted
C10_Witness ==
    /\ call.op = "formatToDynamoItems"
    /\ ret = Throw(UnsupportedType)
    /\ log # <<>>
    /\ log[Len(log)].call.op = "formatToDynamoItems"
    /\ log[Len(log)].ret = Throw(MissingArgument)
    /\ FirstFailing(log[Len(log)].call.pre) = 2
    /\ store[1].v[1].v = Obj(<<Entry(kN, Str(<<"5">>))>>)
    /\ store[1].v[2].v = Null

====
